---- MODULE Spec2Model ----
(***************************************************************************)
(* A model of SceneManager (Source/SceneManager.cpp): the texture          *)
(* registry (m_textureIDs, m_loadedTextures), the material list            *)
(* (m_objectMaterials), the OpenGL texture objects and texture units the   *)
(* manager touches, and the calls it makes on the ShaderManager and on     *)
(* the ShapeMeshes object.                                                 *)
(*                                                                         *)
(* Every float of the source is written in hundredths (4.78f is 478).      *)
(* A method is an operator from the manager's state (a record with one     *)
(* field per member and per piece of GL state) to its state afterwards, so *)
(* that methods which call other methods compose; an action installs the   *)
(* resulting record into the variables.                                    *)
(***************************************************************************)
EXTENDS Integers, Sequences, FiniteSets, TLC

VARIABLES
    m_pShaderManager,   \* the ShaderManager pointer: "valid" or NULL
    m_textureIDs,       \* TEXTURE_INFO m_textureIDs[16]: slot -> [ID, tag]
    m_loadedTextures,   \* number of registered textures
    m_objectMaterials,  \* std::vector<OBJECT_MATERIAL>
    glTextures,         \* names of the texture objects OpenGL has allocated
    glActive,           \* the active texture unit (glActiveTexture)
    glBinding,          \* texture unit -> texture bound to GL_TEXTURE_2D (0: none)
    undefined,          \* TRUE once the program has run into undefined behaviour
    call,               \* the last method called on the manager, with its arguments
    ret,                \* what that method returned
    callLog,            \* the Set*/Draw* calls that method made, in order
    shaderLog           \* the ShaderManager calls that method made, in order

vars == <<m_pShaderManager, m_textureIDs, m_loadedTextures, m_objectMaterials,
          glTextures, glActive, glBinding, undefined, call, ret, callLog, shaderLog>>

NULL == "NULL"

\* The size of m_textureIDs and the number of texture units ("There are up
\* to 16 slots"); the array is declared in SceneManager.h.
MaxTextureSlots == 16

\* Bounds of the model.
MaxGen == 2          \* texture objects OpenGL allocates in a run of Spec
MaxDefine == 1       \* calls of DefineObjectMaterials in a run
MaxGenFill == 18     \* texture objects OpenGL allocates in a run of SpecFill
MaxLeakFill == 1     \* of these, how many a failed CreateGLTexture leaves behind

Slots == 0 .. (MaxTextureSlots - 1)

(***************************************************************************)
(* The manager's state as one record.                                      *)
(***************************************************************************)
SM ==
    [ m_pShaderManager  |-> m_pShaderManager,
      m_textureIDs      |-> m_textureIDs,
      m_loadedTextures  |-> m_loadedTextures,
      m_objectMaterials |-> m_objectMaterials,
      glTextures        |-> glTextures,
      glActive          |-> glActive,
      glBinding         |-> glBinding,
      undefined         |-> undefined,
      callLog           |-> <<>>,
      shaderLog         |-> <<>> ]

Install(s) ==
    /\ m_pShaderManager' = s.m_pShaderManager
    /\ m_textureIDs' = s.m_textureIDs
    /\ m_loadedTextures' = s.m_loadedTextures
    /\ m_objectMaterials' = s.m_objectMaterials
    /\ glTextures' = s.glTextures
    /\ glActive' = s.glActive
    /\ glBinding' = s.glBinding
    /\ undefined' = s.undefined
    /\ callLog' = s.callLog
    /\ shaderLog' = s.shaderLog

(***************************************************************************)
(* OpenGL and stb_image, as far as the manager uses them.                  *)
(***************************************************************************)

\* glGenTextures(1, &id): a name that is not in use. Nothing in the program
\* deletes a texture, so the lowest unused name is the next integer.
glGenTextures(allocated) ==
    CHOOSE id \in 1 .. (Cardinality(allocated) + 1) :
        /\ id \notin allocated
        /\ \A other \in 1 .. (id - 1) : other \in allocated

\* stbi_load(filename, &width, &height, &colorChannels, 0): NULL (NoImage)
\* when the file cannot be read or decoded, else an image with 1 to 4
\* channels. What a file holds is the environment's choice.
NoImage == [loaded |-> FALSE, colorChannels |-> 0]

stbi_load(filename) ==
    {NoImage} \cup {[loaded |-> TRUE, colorChannels |-> c] : c \in 1 .. 4}

\* The conversion of a GLuint to the int FindTextureID returns.
GLuintToInt(u) ==
    IF u > 2147483647 THEN ((u - 2147483647) - 2147483647) - 2 ELSE u

(***************************************************************************)
(* SceneManager::CreateGLTexture. The set of outcomes: one, except for the *)
(* write past the end of m_textureIDs, whose behaviour is undefined.       *)
(***************************************************************************)
RegisterTexture(s, textureID, tag) ==
    LET n == s.m_loadedTextures IN
    IF n \in Slots
    THEN { [ s   |-> [s EXCEPT !.m_textureIDs[n] = [ID |-> textureID, tag |-> tag],
                               !.m_loadedTextures = n + 1],
             ret |-> TRUE ] }
    ELSE \* m_textureIDs[n] is outside the array: the write lands in whatever
         \* follows it. The program either goes on (and counts the texture) or dies.
         { [ s   |-> [s EXCEPT !.undefined = TRUE, !.m_loadedTextures = n + 1],
             ret |-> TRUE ],
           [ s   |-> [s EXCEPT !.undefined = TRUE],
             ret |-> FALSE ] }

\* CreateGLTexture with the registration moved before the channel check.
CreateGLTextureRegistersFirst(s, filename, tag, image) ==
    IF image.loaded
    THEN LET textureID == glGenTextures(s.glTextures)
             bound == [s EXCEPT !.glTextures = @ \cup {textureID},
                                !.glBinding[s.glActive] = textureID]
         IN  { [ s   |-> o.s,
                 ret |-> image.colorChannels = 3 \/ image.colorChannels = 4 ]
               : o \in RegisterTexture(bound, textureID, tag) }
    ELSE { [s |-> s, ret |-> FALSE] }

CreateGLTexture(s, filename, tag, image) ==
    IF image.loaded
    THEN LET textureID == glGenTextures(s.glTextures)
             \* glGenTextures, glBindTexture(GL_TEXTURE_2D, textureID)
             bound == [s EXCEPT !.glTextures = @ \cup {textureID},
                                !.glBinding[s.glActive] = textureID]
         IN  IF image.colorChannels = 3 \/ image.colorChannels = 4
             THEN \* glTexImage2D, glGenerateMipmap, stbi_image_free,
                  \* glBindTexture(GL_TEXTURE_2D, 0), then the registration
                  RegisterTexture([bound EXCEPT !.glBinding[s.glActive] = 0],
                                  textureID, tag)
             ELSE \* "Not implemented to handle image with ... channels":
                  \* returns with the texture allocated and still bound
                  { [s |-> bound, ret |-> FALSE] }
    ELSE \* "Could not load image"
         { [s |-> s, ret |-> FALSE] }

(***************************************************************************)
(* SceneManager::BindGLTextures                                            *)
(***************************************************************************)
RECURSIVE BindGLTexturesLoop(_, _)
BindGLTexturesLoop(s, i) ==
    IF i < s.m_loadedTextures
    THEN BindGLTexturesLoop(
             [s EXCEPT !.glActive = i,
                       !.glBinding[i] = s.m_textureIDs[i].ID],
             i + 1)
    ELSE s

BindGLTextures(s) == BindGLTexturesLoop(s, 0)

(***************************************************************************)
(* SceneManager::DestroyGLTextures                                         *)
(***************************************************************************)
RECURSIVE DestroyGLTexturesLoop(_, _)
DestroyGLTexturesLoop(s, i) ==
    IF i < s.m_loadedTextures
    THEN LET id == glGenTextures(s.glTextures) IN
         \* glGenTextures(1, &m_textureIDs[i].ID)
         DestroyGLTexturesLoop(
             [s EXCEPT !.glTextures = @ \cup {id},
                       !.m_textureIDs[i].ID = id],
             i + 1)
    ELSE s

DestroyGLTextures(s) == DestroyGLTexturesLoop(s, 0)

(***************************************************************************)
(* SceneManager::FindTextureID and SceneManager::FindTextureSlot           *)
(***************************************************************************)
RECURSIVE FindTextureIDLoop(_, _, _)
FindTextureIDLoop(s, tag, index) ==
    IF index < s.m_loadedTextures
    THEN IF s.m_textureIDs[index].tag = tag
         THEN GLuintToInt(s.m_textureIDs[index].ID)
         ELSE FindTextureIDLoop(s, tag, index + 1)
    ELSE -1

\* FindTextureID with a loop that does not stop at the first match.
RECURSIVE FindTextureIDKeepsGoingLoop(_, _, _, _)
FindTextureIDKeepsGoingLoop(s, tag, index, textureID) ==
    IF index < s.m_loadedTextures
    THEN FindTextureIDKeepsGoingLoop(s, tag, index + 1,
             IF s.m_textureIDs[index].tag = tag
             THEN GLuintToInt(s.m_textureIDs[index].ID)
             ELSE textureID)
    ELSE textureID

FindTextureIDKeepsGoing(s, tag) == FindTextureIDKeepsGoingLoop(s, tag, 0, -1)

FindTextureID(s, tag) == FindTextureIDLoop(s, tag, 0)

RECURSIVE FindTextureSlotLoop(_, _, _)
FindTextureSlotLoop(s, tag, index) ==
    IF index < s.m_loadedTextures
    THEN IF s.m_textureIDs[index].tag = tag
         THEN index
         ELSE FindTextureSlotLoop(s, tag, index + 1)
    ELSE -1

\* FindTextureSlot with a loop that does not stop at the first match.
RECURSIVE FindTextureSlotKeepsGoingLoop(_, _, _, _)
FindTextureSlotKeepsGoingLoop(s, tag, index, textureSlot) ==
    IF index < s.m_loadedTextures
    THEN FindTextureSlotKeepsGoingLoop(s, tag, index + 1,
             IF s.m_textureIDs[index].tag = tag THEN index ELSE textureSlot)
    ELSE textureSlot

FindTextureSlotKeepsGoing(s, tag) == FindTextureSlotKeepsGoingLoop(s, tag, 0, -1)

FindTextureSlot(s, tag) == FindTextureSlotLoop(s, tag, 0)

(***************************************************************************)
(* SceneManager::FindMaterial. `material` is the caller's object, passed   *)
(* by reference: the fields the method does not assign keep what the       *)
(* caller's object held.                                                   *)
(***************************************************************************)
RECURSIVE FindMaterialLoop(_, _, _, _)
FindMaterialLoop(s, tag, material, index) ==
    \* m_objectMaterials[index] of the source is m_objectMaterials[index + 1] here
    IF index < Len(s.m_objectMaterials)
    THEN IF s.m_objectMaterials[index + 1].tag = tag
         THEN [material EXCEPT
                  !.ambientColor = s.m_objectMaterials[index + 1].ambientColor,
                  !.ambientStrength = s.m_objectMaterials[index + 1].ambientStrength,
                  !.diffuseColor = s.m_objectMaterials[index + 1].diffuseColor,
                  !.specularColor = s.m_objectMaterials[index + 1].specularColor,
                  !.shininess = s.m_objectMaterials[index + 1].shininess]
         ELSE FindMaterialLoop(s, tag, material, index + 1)
    ELSE material

FindMaterial(s, tag, material) ==
    IF Len(s.m_objectMaterials) = 0
    THEN [ret |-> FALSE, material |-> material]
    ELSE [ret |-> TRUE, material |-> FindMaterialLoop(s, tag, material, 0)]

\* An OBJECT_MATERIAL that was declared and not assigned: the tag is the
\* empty string, the floats hold whatever the stack held.
UninitFloats == {0, -31337}

UninitMaterials ==
    { [ tag |-> "", ambientColor |-> <<g, g, g>>, ambientStrength |-> g,
        diffuseColor |-> <<g, g, g>>, specularColor |-> <<g, g, g>>,
        shininess |-> g ] : g \in UninitFloats }

(***************************************************************************)
(* The calls on the ShaderManager, recorded in shaderLog.                  *)
(***************************************************************************)
Upload(s, fn, name, value) ==
    [s EXCEPT !.shaderLog = Append(@, [fn |-> fn, name |-> name, value |-> value])]

\* A call through m_pShaderManager that the source does not guard.
Deref(s, t) == IF s.m_pShaderManager = NULL THEN [s EXCEPT !.undefined = TRUE] ELSE t

\* The conversion of a bool argument to the int setIntValue takes.
BoolToInt(b) == IF b THEN 1 ELSE 0

(***************************************************************************)
(* SceneManager::SetTransformations. The model matrix is                   *)
(* translation * rotationZ * rotationY * rotationX * scale, kept as its    *)
(* factors in that order.                                                  *)
(***************************************************************************)
SetTransformations(s, scaleXYZ, XrotationDegrees, YrotationDegrees, ZrotationDegrees, positionXYZ) ==
    LET modelView == << [translate |-> positionXYZ],
                        [rotateZ |-> ZrotationDegrees],
                        [rotateY |-> YrotationDegrees],
                        [rotateX |-> XrotationDegrees],
                        [scale |-> scaleXYZ] >>
    IN  IF s.m_pShaderManager # NULL
        THEN Upload(s, "setMat4Value", "model", modelView)
        ELSE s

(***************************************************************************)
(* SceneManager::SetShaderColor                                            *)
(***************************************************************************)
SetShaderColor(s, redColorValue, greenColorValue, blueColorValue, alphaValue) ==
    LET currentColor == <<redColorValue, greenColorValue, blueColorValue, alphaValue>>
    IN  IF s.m_pShaderManager # NULL
        THEN Upload(Upload(s, "setIntValue", "bUseTexture", BoolToInt(FALSE)),
                    "setVec4Value", "objectColor", currentColor)
        ELSE s

(***************************************************************************)
(* SceneManager::SetShaderTexture                                          *)
(***************************************************************************)
\* SetShaderTexture dropping the last registered texture when the tag is unknown.
SetShaderTextureEvicts(s, textureTag) ==
    IF s.m_pShaderManager # NULL
    THEN LET textureID == FindTextureSlot(s, textureTag)
             t == IF textureID = -1 /\ s.m_loadedTextures > 0
                  THEN [s EXCEPT !.m_loadedTextures = @ - 1]
                  ELSE s
         IN  Upload(Upload(t, "setIntValue", "bUseTexture", BoolToInt(TRUE)),
                    "setSampler2DValue", "objectTexture", textureID)
    ELSE s

SetShaderTexture(s, textureTag) ==
    IF s.m_pShaderManager # NULL
    THEN LET textureID == FindTextureSlot(s, textureTag) IN
         Upload(Upload(s, "setIntValue", "bUseTexture", BoolToInt(TRUE)),
                "setSampler2DValue", "objectTexture", textureID)
    ELSE s

(***************************************************************************)
(* SceneManager::SetTextureUVScale                                         *)
(***************************************************************************)
SetTextureUVScale(s, u, v) ==
    IF s.m_pShaderManager # NULL
    THEN Upload(s, "setVec2Value", "UVscale", <<u, v>>)
    ELSE s

(***************************************************************************)
(* SceneManager::SetShaderMaterial. `local` is what its OBJECT_MATERIAL    *)
(* local holds before FindMaterial is called.                              *)
(***************************************************************************)
SetShaderMaterial(s, materialTag, local) ==
    IF Len(s.m_objectMaterials) > 0
    THEN LET found == FindMaterial(s, materialTag, local)
             material == found.material
         IN  IF found.ret = TRUE
             THEN Deref(s,
                    Upload(Upload(Upload(Upload(Upload(s,
                      "setVec3Value", "material.ambientColor", material.ambientColor),
                      "setFloatValue", "material.ambientStrength", material.ambientStrength),
                      "setVec3Value", "material.diffuseColor", material.diffuseColor),
                      "setVec3Value", "material.specularColor", material.specularColor),
                      "setFloatValue", "material.shininess", material.shininess))
             ELSE s
    ELSE s

(***************************************************************************)
(* SceneManager::DefineObjectMaterials                                     *)
(***************************************************************************)
Material(tag, ambientColor, ambientStrength, diffuseColor, specularColor, shininess) ==
    [ tag |-> tag, ambientColor |-> ambientColor, ambientStrength |-> ambientStrength,
      diffuseColor |-> diffuseColor, specularColor |-> specularColor,
      shininess |-> shininess ]

DefinedMaterials ==
    << Material("blackmetal",  <<50, 50, 50>>,    50, <<20, 20, 20>>,    <<50, 50, 50>>,    12800),
       Material("carbonfiber", <<50, 50, 50>>,    40, <<40, 40, 40>>,    <<80, 80, 80>>,    50),
       Material("metal",       <<80, 80, 80>>,    80, <<80, 80, 80>>,    <<100, 100, 100>>, 10000),
       Material("greyplastic", <<100, 100, 100>>, 80, <<100, 100, 100>>, <<100, 100, 100>>, 6500),
       Material("clay",        <<20, 20, 30>>,    30, <<40, 40, 50>>,    <<20, 20, 40>>,    50) >>

DefineObjectMaterials(s) ==
    [s EXCEPT !.m_objectMaterials = @ \o DefinedMaterials]

(***************************************************************************)
(* SceneManager::SetupSceneLights: its calls on the ShaderManager, in the  *)
(* order of the source.                                                    *)
(***************************************************************************)
LightSource0 ==
    << <<"setVec3Value",  "lightSources[0].position",          <<500, 500, 500>>>>,
       <<"setVec3Value",  "lightSources[0].ambientColor",      <<1, 1, 1>>>>,
       <<"setVec3Value",  "lightSources[0].diffuseColor",      <<100, 40, 40>>>>,
       <<"setVec3Value",  "lightSources[0].specularColor",     <<0, 0, 0>>>>,
       <<"setFloatValue", "lightSources[0].focalStrength",     3200>>,
       <<"setFloatValue", "lightSources[0].specularIntensity", 1>> >>

LightSource1 ==
    << <<"setVec3Value",  "lightSources[1].position",          <<-300, 500, 500>>>>,
       <<"setVec3Value",  "lightSources[1].ambientColor",      <<100, 1, 1>>>>,
       <<"setVec3Value",  "lightSources[1].diffuseColor",      <<40, 40, 40>>>>,
       <<"setVec3Value",  "lightSources[1].specularColor",     <<0, 0, 0>>>>,
       <<"setFloatValue", "lightSources[1].focalStrength",     3200>>,
       <<"setFloatValue", "lightSources[1].specularIntensity", 1>> >>

LightSource2 ==
    << <<"setVec3Value",  "lightSources[2].position",          <<160, 500, 100>>>>,
       <<"setVec3Value",  "lightSources[2].ambientColor",      <<1, 1, 1>>>>,
       <<"setVec3Value",  "lightSources[2].diffuseColor",      <<30, 30, 30>>>>,
       <<"setVec3Value",  "lightSources[2].specularColor",     <<30, 30, 30>>>>,
       <<"setFloatValue", "lightSources[2].focalStrength",     1200>>,
       <<"setFloatValue", "lightSources[2].specularIntensity", 10>> >>

\* The fourth light written to index 4.
LightSource3WrongIndex ==
    << <<"setVec3Value",  "lightSources[4].position",          <<400, 500, -500>>>>,
       <<"setVec3Value",  "lightSources[4].ambientColor",      <<1, 1, 1>>>>,
       <<"setVec3Value",  "lightSources[4].diffuseColor",      <<30, 30, 30>>>>,
       <<"setVec3Value",  "lightSources[4].specularColor",     <<30, 30, 30>>>>,
       <<"setFloatValue", "lightSources[4].focalStrength",     1200>>,
       <<"setFloatValue", "lightSources[4].specularIntensity", 10>> >>

LightSource3 ==
    << <<"setVec3Value",  "lightSources[3].position",          <<400, 500, -500>>>>,
       <<"setVec3Value",  "lightSources[3].ambientColor",      <<1, 1, 1>>>>,
       <<"setVec3Value",  "lightSources[3].diffuseColor",      <<30, 30, 30>>>>,
       <<"setVec3Value",  "lightSources[3].specularColor",     <<30, 30, 30>>>>,
       <<"setFloatValue", "lightSources[3].focalStrength",     1200>>,
       <<"setFloatValue", "lightSources[3].specularIntensity", 10>> >>

UseLighting ==
    << <<"setBoolValue",  "bUseLighting",                      TRUE>> >>

SetupSceneLightsCalls ==
    LightSource0 \o LightSource1 \o LightSource2 \o LightSource3 \o UseLighting

\* The calls of a list made one after the other.
UploadAll(s, calls) ==
    [s EXCEPT !.shaderLog = @ \o
        [i \in 1 .. Len(calls) |->
            [fn |-> calls[i][1], name |-> calls[i][2], value |-> calls[i][3]]]]

SetupSceneLights(s) == Deref(s, UploadAll(s, SetupSceneLightsCalls))

(***************************************************************************)
(* SceneManager::LoadSceneTextures. CreateGLTexture is called on the four  *)
(* files in turn, its result is ignored, and BindGLTextures follows.       *)
(* images[i] is what stbi_load returns for the i-th file.                  *)
(***************************************************************************)
SceneTextureFiles ==
    << <<"textures/blackmetal.jpg",  "blackmetal">>,
       <<"textures/carbonfiber.png", "carbonfiber">>,
       <<"textures/metal.jpg",       "metal">>,
       <<"textures/greyplastic.jpg", "greyplastic">> >>

RECURSIVE CreateAll(_, _, _, _)
CreateAll(states, files, images, i) ==
    IF i > Len(files)
    THEN states
    ELSE CreateAll(
             UNION { { o.s : o \in CreateGLTexture(x, files[i][1], files[i][2], images[i]) }
                     : x \in states },
             files, images, i + 1)

LoadSceneTextures(s, images) ==
    { BindGLTextures(x) : x \in CreateAll({s}, SceneTextureFiles, images, 1) }

(***************************************************************************)
(* SceneManager::PrepareScene                                              *)
(***************************************************************************)
Called(s, fn, args) ==
    [s EXCEPT !.callLog = Append(@, [fn |-> fn, args |-> args])]

PrepareScene(s, images) ==
    { Called(Called(Called(Called(x, "LoadPlaneMesh", <<>>), "LoadTorusMesh", <<>>),
                    "LoadCylinderMesh", <<>>), "LoadSphereMesh", <<>>)
      : x \in LoadSceneTextures(SetupSceneLights(DefineObjectMaterials(s)), images) }

(***************************************************************************)
(* SceneManager::RenderScene: the calls it makes, in the order of the      *)
(* source, each with the values its arguments hold at the call (the second *)
(* plane is drawn with the scaleXYZ the first one set).                    *)
(***************************************************************************)
DrawFloorPlane ==
    << <<"SetTransformations", <<<<2000, 100, 1000>>, 0, 0, 0, <<0, 0, 0>>>>>>,
       <<"SetShaderColor", <<100, 100, 100, 100>>>>,
       <<"SetTextureUVScale", <<400, 400>>>>,
       <<"SetShaderTexture", <<"greyplastic">>>>,
       <<"SetShaderMaterial", <<"clay">>>>,
       <<"DrawPlaneMesh", <<>>>> >>

DrawBackdrop ==
    << <<"SetTransformations", <<<<2000, 100, 1000>>, 9000, 0, 0, <<0, 1000, -1000>>>>>>,
       <<"SetShaderColor", <<100, 100, 100, 100>>>>,
       <<"SetTextureUVScale", <<400, 400>>>>,
       <<"SetShaderTexture", <<"greyplastic">>>>,
       <<"SetShaderMaterial", <<"clay">>>>,
       <<"DrawPlaneMesh", <<>>>> >>

DrawBaseCylinder ==
    << <<"SetTransformations", <<<<100, 20, 100>>, 0, 0, 0, <<0, 0, 0>>>>>>,
       <<"SetShaderColor", <<0, 0, 0, 100>>>>,
       <<"SetTextureUVScale", <<20, 20>>>>,
       <<"SetShaderTexture", <<"carbonfiber">>>>,
       <<"SetShaderMaterial", <<"carbonfiber">>>>,
       <<"DrawCylinderMesh", <<>>>> >>

DrawCylinderExtension ==
    << <<"SetTransformations", <<<<10, 470, 10>>, 0, 0, 0, <<0, 20, -80>>>>>>,
       <<"SetShaderColor", <<0, 0, 0, 100>>>>,
       <<"SetTextureUVScale", <<200, 800>>>>,
       <<"SetShaderTexture", <<"blackmetal">>>>,
       <<"SetShaderMaterial", <<"blackmetal">>>>,
       <<"DrawCylinderMesh", <<>>>> >>

DrawCylinderLock ==
    << <<"SetTransformations", <<<<20, 120, 20>>, 0, 0, 0, <<0, 220, -80>>>>>>,
       <<"SetShaderColor", <<0, 0, 0, 100>>>>,
       <<"SetTextureUVScale", <<60, 60>>>>,
       <<"SetShaderTexture", <<"carbonfiber">>>>,
       <<"SetShaderMaterial", <<"carbonfiber">>>>,
       <<"DrawCylinderMesh", <<>>>> >>

DrawCylinderLockTop ==
    << <<"SetTransformations", <<<<20, 10, 20>>, 0, 0, 0, <<0, 460, -80>>>>>>,
       <<"SetShaderColor", <<0, 0, 0, 100>>>>,
       <<"SetTextureUVScale", <<60, 60>>>>,
       <<"SetShaderTexture", <<"carbonfiber">>>>,
       <<"SetShaderMaterial", <<"carbonfiber">>>>,
       <<"DrawCylinderMesh", <<>>>> >>

DrawCylinderJoint ==
    << <<"SetTransformations", <<<<20, 30, 20>>, 0, 0, 0, <<0, 478, -80>>>>>>,
       <<"SetShaderColor", <<0, 0, 0, 100>>>>,
       <<"SetTextureUVScale", <<60, 60>>>>,
       <<"SetShaderTexture", <<"carbonfiber">>>>,
       <<"SetShaderMaterial", <<"carbonfiber">>>>,
       <<"DrawCylinderMesh", <<>>>> >>

DrawSphereJoint ==
    << <<"SetTransformations", <<<<10, 10, 10>>, 0, 0, 0, <<0, 510, -80>>>>>>,
       <<"SetShaderColor", <<80, 80, 80, 100>>>>,
       <<"SetTextureUVScale", <<200, 200>>>>,
       <<"SetShaderTexture", <<"metal">>>>,
       <<"SetShaderMaterial", <<"metal">>>>,
       <<"DrawSphereMesh", <<>>>> >>

DrawCylinderOffBallJoint ==
    << <<"SetTransformations", <<<<3, 11, 3>>, 0, 0, 4500, <<-4, 515, -80>>>>>>,
       <<"SetShaderColor", <<80, 80, 80, 100>>>>,
       <<"SetTextureUVScale", <<200, 200>>>>,
       <<"SetShaderTexture", <<"metal">>>>,
       <<"SetShaderMaterial", <<"metal">>>>,
       <<"DrawCylinderMesh", <<>>>> >>

DrawCylinderOffTorus ==
    << <<"SetTransformations", <<<<10, 10, 10>>, 0, 0, 4500, <<-10, 521, -80>>>>>>,
       <<"SetShaderColor", <<0, 0, 0, 100>>>>,
       <<"SetTextureUVScale", <<60, 60>>>>,
       <<"SetShaderTexture", <<"carbonfiber">>>>,
       <<"SetShaderMaterial", <<"carbonfiber">>>>,
       <<"DrawCylinderMesh", <<>>>> >>

DrawTorusLight ==
    << <<"SetTransformations", <<<<110, 110, 110>>, 0, 0, 0, <<-110, 620, -80>>>>>>,
       <<"SetShaderColor", <<80, 80, 80, 100>>>>,
       <<"SetTextureUVScale", <<400, 400>>>>,
       <<"SetShaderTexture", <<"greyplastic">>>>,
       <<"SetShaderMaterial", <<"greyplastic">>>>,
       <<"DrawTorusMesh", <<>>>> >>

\* The last torus drawn before its material is set.
DrawTorusLightBackEarly ==
    << <<"SetTransformations", <<<<100, 100, 100>>, 0, 0, 0, <<-110, 620, -90>>>>>>,
       <<"SetShaderColor", <<0, 0, 0, 100>>>>,
       <<"SetTextureUVScale", <<60, 60>>>>,
       <<"SetShaderTexture", <<"blackmetal">>>>,
       <<"DrawTorusMesh", <<>>>>,
       <<"SetShaderMaterial", <<"blackmetal">>>> >>

DrawTorusLightBack ==
    << <<"SetTransformations", <<<<100, 100, 100>>, 0, 0, 0, <<-110, 620, -90>>>>>>,
       <<"SetShaderColor", <<0, 0, 0, 100>>>>,
       <<"SetTextureUVScale", <<60, 60>>>>,
       <<"SetShaderTexture", <<"blackmetal">>>>,
       <<"SetShaderMaterial", <<"blackmetal">>>>,
       <<"DrawTorusMesh", <<>>>> >>

RenderSceneCalls ==
    DrawFloorPlane \o DrawBackdrop \o DrawBaseCylinder
    \o DrawCylinderExtension \o DrawCylinderLock \o DrawCylinderLockTop
    \o DrawCylinderJoint \o DrawSphereJoint \o DrawCylinderOffBallJoint
    \o DrawCylinderOffTorus \o DrawTorusLight \o DrawTorusLightBack

\* One call of the script: it is recorded in callLog and, for a Set*
\* method, run. `local` is what SetShaderMaterial's local holds.
RunCall(s, c, local) ==
    LET t == Called(s, c[1], c[2])
        a == c[2]
    IN  CASE c[1] = "SetTransformations" ->
                SetTransformations(t, a[1], a[2], a[3], a[4], a[5])
          [] c[1] = "SetShaderColor"     -> SetShaderColor(t, a[1], a[2], a[3], a[4])
          [] c[1] = "SetTextureUVScale"  -> SetTextureUVScale(t, a[1], a[2])
          [] c[1] = "SetShaderTexture"   -> SetShaderTexture(t, a[1])
          [] c[1] = "SetShaderMaterial"  -> SetShaderMaterial(t, a[1], local)
          [] OTHER                       -> t   \* m_basicMeshes->Draw*Mesh()

\* The calls first .. last of the script, one after the other; nothing runs
\* after a call that ran into undefined behaviour. (The range is halved to
\* keep the evaluation shallow.)
RECURSIVE RunCalls(_, _, _, _, _)
RunCalls(s, calls, first, last, local) ==
    IF first > last
    THEN s
    ELSE IF first = last
    THEN RunCall(s, calls[first], local)
    ELSE LET mid == (first + last) \div 2
             t == RunCalls(s, calls, first, mid, local)
         IN  IF t.undefined THEN t ELSE RunCalls(t, calls, mid + 1, last, local)

RenderScene(s, local) == RunCalls(s, RenderSceneCalls, 1, Len(RenderSceneCalls), local)

(***************************************************************************)
(* The inputs the actions draw from.                                       *)
(***************************************************************************)
TextureFiles == { <<"textures/metal.jpg", "metal">> }

FillFile == <<"textures/metal.jpg", "metal">>

TagInputs == {"metal", "carbonfiber", "glass"}

TransformInputs == { RenderSceneCalls[49][2] }

ColorInputs == { <<80, 80, 80, 100>> }

UVInputs == { <<200, 800>> }

ImageTuples == [1 .. Len(SceneTextureFiles) -> stbi_load("")]

\* The images whose loading does not leave a texture object behind.
NonLeaking(images) ==
    { im \in images : ~im.loaded \/ im.colorChannels = 3 \/ im.colorChannels = 4 }

Leaked == Cardinality(glTextures) - m_loadedTextures

(***************************************************************************)
(* The state after SceneManager::SceneManager(pShaderManager). The         *)
(* program's main constructs the ShaderManager first and passes it on. The *)
(* constructor assigns neither m_textureIDs nor m_loadedTextures; the      *)
(* class declaration (SceneManager.h) gives them their first values. The   *)
(* count is taken to start at 0, as every method that reads it before any  *)
(* write expects, and the entries' IDs are never read before written.      *)
(***************************************************************************)
Init ==
    /\ m_pShaderManager = "valid"
    /\ m_textureIDs = [i \in Slots |-> [ID |-> 0, tag |-> ""]]
    /\ m_loadedTextures = 0
    /\ m_objectMaterials = <<>>
    /\ glTextures = {}
    /\ glActive = 0
    /\ glBinding = [u \in Slots |-> 0]
    /\ undefined = FALSE
    /\ call = [op |-> "SceneManager"]
    /\ ret = [void |-> TRUE]
    /\ callLog = <<>>
    /\ shaderLog = <<>>

(***************************************************************************)
(* The actions: one call of a method each. `call` records the method and   *)
(* its arguments (for CreateGLTexture also the image stbi_load returned),  *)
(* `ret` what the method returned.                                         *)
(***************************************************************************)
Void == [void |-> TRUE]

BoolResult(b) == [bool |-> b]

IntResult(i) == [int |-> i]

\* Nothing is called on a manager that has run into undefined behaviour.
Act(c, s, r) ==
    /\ ~undefined
    /\ Install(s)
    /\ call' = c
    /\ ret' = r

CreateGLTextureCall(filename, tag, images) ==
    \E image \in images :
        \E o \in CreateGLTexture(SM, filename, tag, image) :
            Act([op |-> "CreateGLTexture", filename |-> filename, tag |-> tag,
                 image |-> image],
                o.s, BoolResult(o.ret))

BindGLTexturesCall ==
    Act([op |-> "BindGLTextures"], BindGLTextures(SM), Void)

DestroyGLTexturesCall ==
    Act([op |-> "DestroyGLTextures"], DestroyGLTextures(SM), Void)

FindTextureIDCall(tag) ==
    Act([op |-> "FindTextureID", tag |-> tag], SM, IntResult(FindTextureID(SM, tag)))

FindTextureSlotCall(tag) ==
    Act([op |-> "FindTextureSlot", tag |-> tag], SM,
        IntResult(FindTextureSlot(SM, tag)))

FindMaterialCall(tag) ==
    \E material \in UninitMaterials :
        LET r == FindMaterial(SM, tag, material) IN
        Act([op |-> "FindMaterial", tag |-> tag], SM,
            [bool |-> r.ret, material |-> r.material])

SetTransformationsCall(a) ==
    Act([op |-> "SetTransformations", scaleXYZ |-> a[1], XrotationDegrees |-> a[2],
         YrotationDegrees |-> a[3], ZrotationDegrees |-> a[4], positionXYZ |-> a[5]],
        SetTransformations(SM, a[1], a[2], a[3], a[4], a[5]), Void)

SetShaderColorCall(a) ==
    Act([op |-> "SetShaderColor", color |-> a],
        SetShaderColor(SM, a[1], a[2], a[3], a[4]), Void)

SetShaderTextureCall(tag) ==
    Act([op |-> "SetShaderTexture", tag |-> tag], SetShaderTexture(SM, tag), Void)

SetTextureUVScaleCall(a) ==
    Act([op |-> "SetTextureUVScale", u |-> a[1], v |-> a[2]],
        SetTextureUVScale(SM, a[1], a[2]), Void)

SetShaderMaterialCall(tag) ==
    \E local \in UninitMaterials :
        Act([op |-> "SetShaderMaterial", tag |-> tag],
            SetShaderMaterial(SM, tag, local), Void)

DefineObjectMaterialsCall ==
    Act([op |-> "DefineObjectMaterials"], DefineObjectMaterials(SM), Void)

SetupSceneLightsCall ==
    Act([op |-> "SetupSceneLights"], SetupSceneLights(SM), Void)

LoadSceneTexturesCall ==
    \E images \in ImageTuples :
        \E s \in LoadSceneTextures(SM, images) :
            Act([op |-> "LoadSceneTextures"], s, Void)

PrepareSceneCall ==
    \E images \in ImageTuples :
        \E s \in PrepareScene(SM, images) :
            Act([op |-> "PrepareScene"], s, Void)

RenderSceneCall ==
    \E local \in UninitMaterials :
        Act([op |-> "RenderScene"], RenderScene(SM, local), Void)

\* The guards that keep a run of the model finite.
CanGen(n) == Cardinality(glTextures) + n <= MaxGen

CanDefine == Len(m_objectMaterials) < MaxDefine * Len(DefinedMaterials)

\* PrepareScene and LoadSceneTextures run on a manager that has loaded
\* nothing yet, as they do in the program.
Fresh == glTextures = {} /\ m_loadedTextures = 0

Next ==
    \/ \E f \in TextureFiles :
           CanGen(1) /\ CreateGLTextureCall(f[1], f[2], stbi_load(f[1]))
    \/ BindGLTexturesCall
    \/ CanGen(m_loadedTextures) /\ DestroyGLTexturesCall
    \/ \E tag \in TagInputs : FindTextureIDCall(tag)
    \/ \E tag \in TagInputs : FindTextureSlotCall(tag)
    \/ \E tag \in TagInputs : FindMaterialCall(tag)
    \/ \E a \in TransformInputs : SetTransformationsCall(a)
    \/ \E a \in ColorInputs : SetShaderColorCall(a)
    \/ \E tag \in TagInputs : SetShaderTextureCall(tag)
    \/ \E a \in UVInputs : SetTextureUVScaleCall(a)
    \/ \E tag \in TagInputs : SetShaderMaterialCall(tag)
    \/ CanDefine /\ DefineObjectMaterialsCall
    \/ SetupSceneLightsCall
    \/ Fresh /\ LoadSceneTexturesCall
    \/ Fresh /\ CanDefine /\ PrepareSceneCall
    \/ RenderSceneCall

Spec == Init /\ [][Next]_vars

(***************************************************************************)
(* SpecFill: CreateGLTexture called again and again on one file, with      *)
(* BindGLTextures in between, until the registry is full and beyond.       *)
(***************************************************************************)
NextFill ==
    \/ /\ Cardinality(glTextures) < MaxGenFill
       /\ CreateGLTextureCall(FillFile[1], FillFile[2],
              IF Leaked < MaxLeakFill
              THEN stbi_load(FillFile[1])
              ELSE NonLeaking(stbi_load(FillFile[1])))
    \/ BindGLTexturesCall

SpecFill == Init /\ [][NextFill]_vars

(***************************************************************************)
(* The properties.                                                         *)
(***************************************************************************)
Registered == 0 .. (m_loadedTextures - 1)

Matches(tag) == { i \in Registered : m_textureIDs[i].tag = tag }

MaterialMatches(tag) ==
    { i \in 1 .. Len(m_objectMaterials) : m_objectMaterials[i].tag = tag }

Least(S) == CHOOSE x \in S : \A y \in S : x <= y

Greatest(S) == CHOOSE x \in S : \A y \in S : x >= y

\* A CreateGLTexture call succeeds when the file is read and holds 3 or 4 channels.
Succeeds(c) ==
    /\ c.op = "CreateGLTexture"
    /\ c.image.loaded
    /\ c.image.colorChannels \in {3, 4}

Fails(c) ==
    /\ c.op = "CreateGLTexture"
    /\ ~(c.image.loaded /\ c.image.colorChannels \in {3, 4})

\* C1: after any sequence of CreateGLTexture calls, succeeding or failing,
\* m_loadedTextures is between 0 and 16, no write m_textureIDs[m_loadedTextures]
\* has left the 16 slots, and the texture unit BindGLTextures made active is
\* one of the 16.
C1_LoadedTexturesWithinSlots ==
    /\ m_loadedTextures \in 0 .. MaxTextureSlots
    /\ ~undefined
    /\ glActive \in Slots

\* C2: after DestroyGLTextures returns, no texture ID that was registered in
\* m_textureIDs[0 .. m_loadedTextures-1] is still allocated, and the call has
\* allocated no new texture object.
C2_DestroyFreesRegisteredTextures ==
    [][ call'.op = "DestroyGLTextures" =>
            /\ \A i \in Registered : m_textureIDs[i].ID \notin glTextures'
            /\ glTextures' \subseteq glTextures ]_vars

\* C3: FindTextureSlot(tag) returns the smallest index in
\* 0 .. m_loadedTextures-1 whose registered tag equals tag, returns -1 exactly
\* when no registered texture has that tag, and leaves the registry as it was.
C3_FindTextureSlotFirstMatch ==
    [][ call'.op = "FindTextureSlot" =>
            LET found == Matches(call'.tag) IN
            /\ (ret'.int = -1) <=> (found = {})
            /\ found # {} => ret'.int = Least(found)
            /\ UNCHANGED <<m_textureIDs, m_loadedTextures>> ]_vars

\* FindTextureSlot has returned the first of two slots that hold the tag.
C3_Witness ==
    /\ call.op = "FindTextureSlot"
    /\ ret.int # -1
    /\ \E j \in Matches(call.tag) : j > ret.int

\* C4: FindTextureID(tag) returns m_textureIDs[FindTextureSlot(tag)].ID
\* whenever FindTextureSlot(tag) is not -1, and returns -1 exactly when
\* FindTextureSlot(tag) returns -1.
C4_FindTextureIDAgreesWithSlot ==
    call.op = "FindTextureID" =>
        LET slot == FindTextureSlot(SM, call.tag) IN
        /\ slot # -1 => ret.int = m_textureIDs[slot].ID
        /\ (ret.int = -1) <=> (slot = -1)

\* FindTextureID has returned the ID of the first of two slots that hold the
\* tag, and the two IDs differ.
C4_Witness ==
    /\ call.op = "FindTextureID"
    /\ ret.int # -1
    /\ \E j \in Matches(call.tag) :
           j > FindTextureSlot(SM, call.tag) /\ m_textureIDs[j].ID # ret.int

\* C5: a successful CreateGLTexture(filename, tag) returns true and, with n
\* the value of m_loadedTextures before the call, leaves the new texture ID
\* and the tag in m_textureIDs[n], m_loadedTextures at n+1 and the entries
\* 0 .. n-1 as they were.
C5_CreateFillsNextSlot ==
    [][ Succeeds(call') =>
            LET n == m_loadedTextures IN
            /\ ret'.bool = TRUE
            /\ ~undefined'
            /\ n \in DOMAIN m_textureIDs'
            /\ m_textureIDs'[n].tag = call'.tag
            /\ m_textureIDs'[n].ID \in glTextures' \ glTextures
            /\ m_loadedTextures' = n + 1
            /\ \A i \in 0 .. (n - 1) : m_textureIDs'[i] = m_textureIDs[i] ]_vars

\* C6, as stated: a CreateGLTexture that fails (the file cannot be read, or
\* the image has a channel count other than 3 or 4) returns false and leaves
\* m_loadedTextures and every entry of m_textureIDs as before the call, so
\* the failed tag is found neither by FindTextureSlot nor by FindTextureID.
C6_FailedTagNotFindable ==
    [][ Fails(call') =>
            /\ ret'.bool = FALSE
            /\ UNCHANGED <<m_textureIDs, m_loadedTextures>>
            /\ FindTextureSlot(SM', call'.tag) = -1
            /\ FindTextureID(SM', call'.tag) = -1 ]_vars

\* C6, amended: a CreateGLTexture that fails returns false and leaves
\* m_loadedTextures and every entry of m_textureIDs as before the call, so
\* FindTextureSlot and FindTextureID return for every tag, the failed one
\* included, what they returned before the call.
C6_FailedCreateKeepsRegistry ==
    [][ Fails(call') =>
            /\ ret'.bool = FALSE
            /\ UNCHANGED <<m_textureIDs, m_loadedTextures>>
            /\ \A tag \in TagInputs \cup {call'.tag} :
                   /\ FindTextureSlot(SM', tag) = FindTextureSlot(SM, tag)
                   /\ FindTextureID(SM', tag) = FindTextureID(SM, tag) ]_vars

\* CreateGLTexture has failed on an image of unsupported channel count, with
\* a tag that an earlier call registered.
C6_Witness ==
    /\ Fails(call)
    /\ call.image.loaded
    /\ ret.bool = FALSE
    /\ FindTextureSlot(SM, call.tag) # -1

\* C7: whenever FindMaterial(tag, material) returns true, a material with
\* that tag is in m_objectMaterials and the output's five values are those of
\* the first such material; when no defined material has the tag it returns
\* false, and SetShaderMaterial uploads no material uniform.
C7_FindMaterialReportsMissing ==
    /\ call.op = "FindMaterial" =>
           LET found == MaterialMatches(call.tag) IN
           /\ ret.bool = TRUE =>
                  /\ found # {}
                  /\ LET first == m_objectMaterials[Least(found)] IN
                     /\ ret.material.ambientColor = first.ambientColor
                     /\ ret.material.ambientStrength = first.ambientStrength
                     /\ ret.material.diffuseColor = first.diffuseColor
                     /\ ret.material.specularColor = first.specularColor
                     /\ ret.material.shininess = first.shininess
           /\ found = {} => ret.bool = FALSE
    /\ (call.op = "SetShaderMaterial" /\ MaterialMatches(call.tag) = {}) =>
           shaderLog = <<>>

\* C8: in RenderScene there are, between any two consecutive Draw*Mesh calls
\* and before the first one, exactly one call each of SetTransformations,
\* SetShaderColor, SetTextureUVScale, SetShaderTexture and SetShaderMaterial,
\* in that order, and the draws are Plane, Plane, Cylinder x5, Sphere,
\* Cylinder, Cylinder, Torus, Torus.
SetOrder ==
    << "SetTransformations", "SetShaderColor", "SetTextureUVScale",
       "SetShaderTexture", "SetShaderMaterial" >>

DrawOrder ==
    << "DrawPlaneMesh", "DrawPlaneMesh",
       "DrawCylinderMesh", "DrawCylinderMesh", "DrawCylinderMesh",
       "DrawCylinderMesh", "DrawCylinderMesh",
       "DrawSphereMesh", "DrawCylinderMesh", "DrawCylinderMesh",
       "DrawTorusMesh", "DrawTorusMesh" >>

Draws == { k \in 1 .. Len(callLog) :
             \A j \in 1 .. Len(SetOrder) : callLog[k].fn # SetOrder[j] }

PreviousDraw(d) ==
    IF \E e \in Draws : e < d THEN Greatest({ e \in Draws : e < d }) ELSE 0

C8_StateSetBeforeEveryDraw ==
    call.op = "RenderScene" =>
        /\ Cardinality(Draws) = Len(DrawOrder)
        /\ \A d \in Draws :
               /\ callLog[d].fn = DrawOrder[Cardinality({ e \in Draws : e <= d })]
               /\ d - PreviousDraw(d) = Len(SetOrder) + 1
               /\ \A j \in 1 .. Len(SetOrder) :
                      callLog[PreviousDraw(d) + j].fn = SetOrder[j]

\* RenderScene has run and drawn.
C8_Witness ==
    /\ call.op = "RenderScene"
    /\ Draws # {}
    /\ Len(callLog) = Len(RenderSceneCalls)

\* C9: RenderScene, BindGLTextures, FindTextureID, FindTextureSlot,
\* FindMaterial and every Set* operation leave m_loadedTextures, m_textureIDs
\* and m_objectMaterials unchanged, and a RenderScene that follows a
\* RenderScene makes the same calls and the same shader settings.
RenderingOps ==
    { "RenderScene", "BindGLTextures", "FindTextureID", "FindTextureSlot",
      "FindMaterial", "SetTransformations", "SetShaderColor",
      "SetTextureUVScale", "SetShaderTexture", "SetShaderMaterial" }

C9_RenderingKeepsTexturesAndMaterials ==
    [][ /\ call'.op \in RenderingOps =>
               UNCHANGED <<m_loadedTextures, m_textureIDs, m_objectMaterials>>
        /\ (call.op = "RenderScene" /\ call'.op = "RenderScene") =>
               (callLog' = callLog /\ shaderLog' = shaderLog) ]_vars

\* RenderScene has run with the four scene textures and the materials loaded,
\* and has uploaded textures and materials.
C9_Witness ==
    /\ call.op = "RenderScene"
    /\ m_loadedTextures = Len(SceneTextureFiles)
    /\ m_objectMaterials # <<>>
    /\ \E k \in 1 .. Len(shaderLog) : shaderLog[k].name = "material.shininess"
    /\ \E k \in 1 .. Len(shaderLog) :
           shaderLog[k].name = "objectTexture" /\ shaderLog[k].value > 0

\* C10: SetupSceneLights sets the six properties of exactly the light
\* indices 0, 1, 2 and 3, sets nothing of another index, and sets
\* bUseLighting to true only after all four lights have been configured.
LightProperties ==
    { "position", "ambientColor", "diffuseColor", "specularColor",
      "focalStrength", "specularIntensity" }

LightIndexText == << "0", "1", "2", "3" >>

LightUniforms ==
    { "lightSources[" \o LightIndexText[i] \o "]." \o p :
          i \in 1 .. Len(LightIndexText), p \in LightProperties }

C10_FourLightsThenLighting ==
    call.op = "SetupSceneLights" =>
        LET at == 1 .. Len(shaderLog) IN
        /\ \A k \in at : shaderLog[k].name \in LightUniforms \cup {"bUseLighting"}
        /\ \A u \in LightUniforms : \E k \in at : shaderLog[k].name = u
        /\ \E k \in at : shaderLog[k].name = "bUseLighting"
        /\ \A k \in at :
               shaderLog[k].name = "bUseLighting" =>
                   /\ shaderLog[k].value = TRUE
                   /\ \A u \in LightUniforms :
                          \E j \in 1 .. (k - 1) : shaderLog[j].name = u

\* SetupSceneLights has run and made its calls.
C10_Witness ==
    /\ call.op = "SetupSceneLights"
    /\ Len(shaderLog) = Len(SetupSceneLightsCalls)

====
